---- MODULE Spec2Model ----
(***************************************************************************)
(* Brand Standards Analyzer (src/main.py): the Streamlit session state,    *)
(* the single Submit handler with its two outbound model calls, the        *)
(* code-fence cleaner _clean_model_json and the JSON parse / rendering of  *)
(* the verdict.                                                            *)
(*                                                                         *)
(* A text is a sequence of one-character strings.  A Python value is a     *)
(* record [t, v]: t is the Python type ("none", "bool", "num", "str",      *)
(* "list", "dict") and v the payload (a dict is a function from keys, each *)
(* a text, to values).                                                     *)
(***************************************************************************)
EXTENDS Integers, Sequences, FiniteSets, TLC

\* ------------------------------------------------------------------------
\* Bounds of the model
\* ------------------------------------------------------------------------
\* number of distinct documents (distinct byte contents) a user can upload
NumDocs == 2
\* number of pieces a text given to the cleaner alone is built from
MaxPieces == 5

\* ------------------------------------------------------------------------
\* Python strings
\* ------------------------------------------------------------------------
SetMin(S) == CHOOSE x \in S : \A y \in S : x <= y
SetMax(S) == CHOOSE x \in S : \A y \in S : x >= y

\* the whitespace str.strip() removes (of the characters the model uses)
WS == {" ", "\n"}

\* str.strip()
Strip(s) ==
    LET keep == {i \in 1..Len(s) : s[i] \notin WS}
    IN  IF keep = {} THEN <<>> ELSE SubSeq(s, SetMin(keep), SetMax(keep))

\* the start positions of the occurrences of sub in s
Occ(s, sub) ==
    {i \in 1..(Len(s) - Len(sub) + 1) : SubSeq(s, i, i + Len(sub) - 1) = sub}

\* sub in s
Contains(s, sub) == Occ(s, sub) # {}

\* s.split(sep, 1): cut at the leftmost occurrence
Split1(s, sep) ==
    IF Occ(s, sep) = {} THEN <<s>>
    ELSE LET i == SetMin(Occ(s, sep))
         IN  <<SubSeq(s, 1, i - 1), SubSeq(s, i + Len(sep), Len(s))>>

\* (a cut at the leftmost occurrence instead)
RSplit1_First(s, sep) ==
    IF Occ(s, sep) = {} THEN <<s>>
    ELSE LET i == SetMin(Occ(s, sep))
         IN  <<SubSeq(s, 1, i - 1), SubSeq(s, i + Len(sep), Len(s))>>

\* s.rsplit(sep, 1): cut at the rightmost occurrence
RSplit1(s, sep) ==
    IF Occ(s, sep) = {} THEN <<s>>
    ELSE LET i == SetMax(Occ(s, sep))
         IN  <<SubSeq(s, 1, i - 1), SubSeq(s, i + Len(sep), Len(s))>>

\* the backquote character, written ' here: a TLA+ string cannot hold a
\* backquote, and no text of the model holds an apostrophe
BT == "'"
\* "```" and "```json"
Fence == <<BT, BT, BT>>
FenceJson == <<BT, BT, BT, "j", "s", "o", "n">>

\* _clean_model_json: the text between the wrapper's opening fence and the
\* last fence after it, stripped.  split(..., 1)[1] exists whenever the
\* separator occurs, so neither except branch is ever taken.
_clean_model_json(text) ==
    IF Contains(text, FenceJson)
    THEN Strip(RSplit1(Split1(text, FenceJson)[2], Fence)[1])
    ELSE IF Contains(text, Fence)
    THEN Strip(RSplit1(Split1(text, Fence)[2], Fence)[1])
    ELSE Strip(text)

\* ------------------------------------------------------------------------
\* Python values
\* ------------------------------------------------------------------------
PyNone == [t |-> "none", v |-> 0]
PyBool(b) == [t |-> "bool", v |-> b]
PyNum(n) == [t |-> "num", v |-> n]
PyStr(s) == [t |-> "str", v |-> s]
PyList(l) == [t |-> "list", v |-> l]
PyDict(f) == [t |-> "dict", v |-> f]
EmptyDict == [k \in {} |-> PyNone]

\* a == b on values of any two types
PyEq(a, b) == a.t = b.t /\ a = b

\* bool(x): None, False, 0, "", [] and {} are false
Truthy(x) ==
    CASE x.t = "none" -> FALSE
      [] x.t = "bool" -> x.v
      [] x.t = "num" -> x.v # 0
      [] x.t = "str" -> Len(x.v) > 0
      [] x.t = "list" -> Len(x.v) > 0
      [] x.t = "dict" -> DOMAIN x.v # {}

\* isinstance(x, (dict, list))
IsDictOrList(x) == x.t \in {"dict", "list"}

\* x == False: holds of False and of the number 0
EqFalse(x) ==
    \/ x.t = "bool" /\ ~x.v
    \/ x.t = "num" /\ x.v = 0

\* d.get(key, default)
DictGet(d, key, default) == IF key \in DOMAIN d THEN d[key] ELSE default

\* ------------------------------------------------------------------------
\* json.loads, on the JSON the model's texts can hold: objects, arrays,
\* strings without escapes, non-negative integers, true, false, null
\* ------------------------------------------------------------------------
JsonWS == {" ", "\n"}
Digits == {"0", "1", "2", "3", "4", "5", "6", "7", "8", "9"}
DigitVal(c) ==
    CASE c = "0" -> 0 [] c = "1" -> 1 [] c = "2" -> 2 [] c = "3" -> 3
      [] c = "4" -> 4 [] c = "5" -> 5 [] c = "6" -> 6 [] c = "7" -> 7
      [] c = "8" -> 8 [] c = "9" -> 9

ParseFail == [ok |-> FALSE, val |-> PyNone, next |-> 0]
ParseOk(v, n) == [ok |-> TRUE, val |-> v, next |-> n]

\* the first position at or after i that holds no JSON whitespace
SkipWs(s, i) ==
    LET stop == {j \in i..Len(s) : s[j] \notin JsonWS}
    IN  IF stop = {} THEN Len(s) + 1 ELSE SetMin(stop)

At(s, i) == IF i >= 1 /\ i <= Len(s) THEN s[i] ELSE ""

StartsAt(s, i, lit) ==
    i + Len(lit) - 1 <= Len(s) /\ SubSeq(s, i, i + Len(lit) - 1) = lit

\* a string whose opening quote is at i; a control character ends the parse
ParseString(s, i) ==
    LET close == {j \in (i + 1)..Len(s) : s[j] = "\""}
    IN  IF close = {} THEN ParseFail
        ELSE LET j == SetMin(close)
                 body == SubSeq(s, i + 1, j - 1)
             IN  IF \E k \in 1..Len(body) : body[k] \in {"\n", "\\"}
                 THEN ParseFail
                 ELSE ParseOk(PyStr(body), j + 1)

RECURSIVE DecimalOf(_)
DecimalOf(ds) ==
    IF ds = <<>> THEN 0
    ELSE 10 * DecimalOf(SubSeq(ds, 1, Len(ds) - 1)) + DigitVal(ds[Len(ds)])

\* an integer whose first digit is at i: "0", or a digit 1-9 and more digits
ParseNumber(s, i) ==
    IF s[i] = "0" THEN ParseOk(PyNum(0), i + 1)
    ELSE LET stop == {j \in i..Len(s) : s[j] \notin Digits}
             n == IF stop = {} THEN Len(s) + 1 ELSE SetMin(stop)
         IN  ParseOk(PyNum(DecimalOf(SubSeq(s, i, n - 1))), n)

RECURSIVE ParseValue(_, _), ParseElements(_, _, _), ParseMembers(_, _, _)

\* the value that starts at i (whitespace already skipped)
ParseValue(s, i) ==
    LET c == At(s, i)
    IN  CASE c = "{" ->
               LET j == SkipWs(s, i + 1)
               IN  IF At(s, j) = "}" THEN ParseOk(PyDict(EmptyDict), j + 1)
                   ELSE ParseMembers(s, j, EmptyDict)
          [] c = "[" ->
               LET j == SkipWs(s, i + 1)
               IN  IF At(s, j) = "]" THEN ParseOk(PyList(<<>>), j + 1)
                   ELSE ParseElements(s, j, <<>>)
          [] c = "\"" -> ParseString(s, i)
          [] c \in Digits -> ParseNumber(s, i)
          [] c = "t" /\ StartsAt(s, i, <<"t", "r", "u", "e">>) ->
               ParseOk(PyBool(TRUE), i + 4)
          [] c = "f" /\ StartsAt(s, i, <<"f", "a", "l", "s", "e">>) ->
               ParseOk(PyBool(FALSE), i + 5)
          [] c = "n" /\ StartsAt(s, i, <<"n", "u", "l", "l">>) ->
               ParseOk(PyNone, i + 4)
          [] OTHER -> ParseFail

\* the elements of an array from i on, acc the elements read so far
ParseElements(s, i, acc) ==
    LET r == ParseValue(s, i)
    IN  IF ~r.ok THEN ParseFail
        ELSE LET j == SkipWs(s, r.next)
                 got == Append(acc, r.val)
             IN  CASE At(s, j) = "]" -> ParseOk(PyList(got), j + 1)
                   [] At(s, j) = "," -> ParseElements(s, SkipWs(s, j + 1), got)
                   [] OTHER -> ParseFail

\* the members of an object from i on, acc the members read so far; a key
\* given twice keeps its last value
ParseMembers(s, i, acc) ==
    IF At(s, i) # "\"" THEN ParseFail
    ELSE LET k == ParseString(s, i)
         IN  IF ~k.ok THEN ParseFail
             ELSE LET c == SkipWs(s, k.next)
                  IN  IF At(s, c) # ":" THEN ParseFail
                      ELSE LET r == ParseValue(s, SkipWs(s, c + 1))
                           IN  IF ~r.ok THEN ParseFail
                               ELSE LET j == SkipWs(s, r.next)
                                        got == [x \in (DOMAIN acc) \cup {k.val.v} |->
                                                  IF x = k.val.v THEN r.val ELSE acc[x]]
                                    IN  CASE At(s, j) = "}" -> ParseOk(PyDict(got), j + 1)
                                          [] At(s, j) = "," ->
                                               ParseMembers(s, SkipWs(s, j + 1), got)
                                          [] OTHER -> ParseFail

\* json.loads(s): [ok, val]; ok is false where json.loads raises
\* JSONDecodeError (no value, or text after the value)
JsonLoads(s) ==
    LET r == ParseValue(s, SkipWs(s, 1))
    IN  IF r.ok /\ SkipWs(s, r.next) > Len(s)
        THEN [ok |-> TRUE, val |-> r.val]
        ELSE [ok |-> FALSE, val |-> PyNone]

\* ------------------------------------------------------------------------
\* The texts the model service can answer with
\* ------------------------------------------------------------------------
KeyIssuePresent ==
    <<"I", "s", "s", "u", "e", "_", "P", "r", "e", "s", "e", "n", "t">>
KeyCategory == <<"C", "a", "t", "e", "g", "o", "r", "y">>
TextTrue == <<"t", "r", "u", "e">>
TextFalse == <<"f", "a", "l", "s", "e">>
TextNull == <<"n", "u", "l", "l">>

Quoted(s) == <<"\"">> \o s \o <<"\"">>
Member(k, v) == Quoted(k) \o <<":">> \o v
Braces(m) == <<"{">> \o m \o <<"}">>

\* answers to the extraction request: nothing, prose, {}, {"a":1}, null, [1]
ExtractBodies ==
    { <<>>,
      <<"x">>,
      Braces(<<>>),
      Braces(Member(<<"a">>, <<"1">>)),
      TextNull,
      <<"[", "1", "]">> }

\* answers to the QA request: nothing, prose, a list, a number, a string, and
\* objects with Issue_Present true, false, null, 0 or missing, with and
\* without a Category
AuditBodies ==
    { <<>>,
      <<"x">>,
      <<"[", "1", "]">>,
      <<"1">>,
      Quoted(<<"x">>),
      Braces(Member(KeyIssuePresent, TextTrue)),
      Braces(Member(KeyIssuePresent, TextFalse)),
      Braces(Member(KeyIssuePresent, TextTrue) \o <<",">>
             \o Member(KeyCategory, Quoted(<<"x">>))),
      Braces(Member(KeyIssuePresent, TextFalse) \o <<",">>
             \o Member(KeyCategory, Quoted(<<"x">>))),
      Braces(Member(KeyCategory, Quoted(<<"x">>))),
      Braces(Member(KeyIssuePresent, TextNull)),
      Braces(Member(KeyIssuePresent, <<"0">>)) }

\* an answer comes bare, padded with whitespace, in a ```json block or in a
\* plain ``` block
Bare(b) == b
Padded(b) == <<" ">> \o b \o <<"\n">>
JsonFenced(b) == FenceJson \o <<"\n">> \o b \o <<"\n">> \o Fence
PlainFenced(b) == Fence \o <<"\n">> \o b \o <<"\n">> \o Fence

\* response.text of the extraction request and of the QA request
ExtractResponses ==
    {Bare(b) : b \in ExtractBodies} \cup {JsonFenced(b) : b \in ExtractBodies}
        \cup {Padded(Braces(<<>>))}
AuditResponses ==
    {Bare(b) : b \in AuditBodies} \cup {JsonFenced(b) : b \in AuditBodies}
        \cup {PlainFenced(b) : b \in AuditBodies}
        \cup {Padded(Braces(Member(KeyIssuePresent, TextTrue)))}

\* the texts given to the cleaner alone: up to MaxPieces pieces, each a
\* fence, a ```json fence, one backquote, a blank or a letter
CleanPieces == {Fence, FenceJson, <<BT>>, <<" ">>, <<"a">>}
RECURSIVE TextsOf(_)
TextsOf(n) ==
    IF n = 0 THEN {<<>>}
    ELSE LET shorter == TextsOf(n - 1)
         IN  shorter \cup {s \o p : s \in shorter, p \in CleanPieces}
CleanTexts == TextsOf(MaxPieces)

\* ------------------------------------------------------------------------
\* Uploads
\* ------------------------------------------------------------------------
\* an uploader widget holds no file, a file that cannot be read, or a file
\* with its bytes (a document's bytes are one of NumDocs contents)
NoFile == [present |-> FALSE, readable |-> FALSE, bytes |-> 0]
BadFile == [present |-> TRUE, readable |-> FALSE, bytes |-> 0]
GoodFile(b) == [present |-> TRUE, readable |-> TRUE, bytes |-> b]
Docs == 1..NumDocs
PdfFiles == {NoFile, BadFile} \cup {GoodFile(d) : d \in Docs}
ImageFiles == {NoFile, BadFile, GoodFile(1)}

\* hashlib.sha256(pdf_bytes).hexdigest(): a non-empty string, different for
\* different contents
Sha256Hex(b) == PyStr(<<"#", ToString(b)>>)

\* APP_PASSWORD and the tokens a user types
APP_PASSWORD == "secret"
Tokens == {"secret", "guess"}

\* ------------------------------------------------------------------------
\* State
\* ------------------------------------------------------------------------
VARIABLES
    authenticated,      \* st.session_state["authenticated"]
    pdf_extracted,      \* st.session_state["pdf_extracted"]
    pdf_extract_raw,    \* st.session_state["pdf_extract_raw"]
    pdf_hash,           \* st.session_state["pdf_hash"]
    pdf_file,           \* the document uploader
    image_file,         \* the image uploader
    pc,                 \* "idle", or the outbound call the handler waits in
    new_hash,           \* the handler's new_hash
    pdf_ctx,            \* the handler's pdf_ctx, given to call_gemini_api
    calls,              \* the outbound calls of the current submit, in order
    result_text,        \* the handler's result_text
    cleaned,            \* the handler's cleaned
    outcome,            \* what the submit put on the page
    last_ok,            \* history: the most recent extraction attempts
    before              \* history: the cache when the current submit began

vars ==
    <<authenticated, pdf_extracted, pdf_extract_raw, pdf_hash, pdf_file,
      image_file, pc, new_hash, pdf_ctx, calls, result_text, cleaned, outcome,
      last_ok, before>>

session == <<pdf_extracted, pdf_extract_raw, pdf_hash>>
uploads == <<pdf_file, image_file>>

\* what a submit shows: view is the card or message, shown the raw text of
\* the warning card
Shows(view, text) == [view |-> view, shown |-> text]
NothingShown == Shows("none", PyNone)

\* history: the cached result and the stored digest a submit started from
NoBefore == [extracted |-> PyNone, hash |-> PyNone]

\* the handler's locals and the page, as a rerun of the script leaves them
FreshLocals ==
    /\ new_hash' = PyNone
    /\ pdf_ctx' = PyNone
    /\ calls' = <<>>
    /\ result_text' = PyNone
    /\ cleaned' = PyNone
    /\ before' = NoBefore

FreshRun == FreshLocals /\ outcome' = NothingShown

\* history: ok says the latest extraction attempt succeeded; digest and
\* value are the digest and the stored result of the latest successful one
NoHistory == [ok |-> FALSE, digest |-> PyNone, value |-> PyNone]

Init ==
    /\ authenticated = FALSE
    /\ pdf_extracted = PyNone
    /\ pdf_extract_raw = PyNone
    /\ pdf_hash = PyNone
    /\ pdf_file = NoFile
    /\ image_file = NoFile
    /\ pc = "idle"
    /\ new_hash = PyNone
    /\ pdf_ctx = PyNone
    /\ calls = <<>>
    /\ result_text = PyNone
    /\ cleaned = PyNone
    /\ outcome = NothingShown
    /\ last_ok = NoHistory
    /\ before = NoBefore

\* ------------------------------------------------------------------------
\* Access gate
\* ------------------------------------------------------------------------
Login(token_input) ==
    /\ pc = "idle"
    /\ ~authenticated
    /\ authenticated' = (token_input = APP_PASSWORD)
    /\ UNCHANGED <<session, uploads, pc, new_hash, pdf_ctx, calls, result_text,
                   cleaned, outcome, last_ok, before>>

\* ------------------------------------------------------------------------
\* Uploads: the script reruns, the Submit button reads False
\* ------------------------------------------------------------------------
UploadPdf(f) ==
    /\ pc = "idle"
    /\ authenticated
    /\ f # pdf_file
    /\ pdf_file' = f
    /\ FreshRun
    /\ UNCHANGED <<authenticated, session, image_file, pc, last_ok>>

UploadImage(f) ==
    /\ pc = "idle"
    /\ authenticated
    /\ f # image_file
    /\ image_file' = f
    /\ FreshRun
    /\ UNCHANGED <<authenticated, session, pdf_file, pc, last_ok>>

\* ------------------------------------------------------------------------
\* Submit
\* ------------------------------------------------------------------------
\* (a cache check that forgets the digest)
NeedExtract_NoDigest(extracted, stored_hash, hash) == ~Truthy(extracted)

\* the cache check: extract when the cached result is not true, or the
\* digest of the attached document is known and is not the stored one
NeedExtract(extracted, stored_hash, hash) ==
    \/ ~Truthy(extracted)
    \/ Truthy(hash) /\ ~PyEq(stored_hash, hash)

\* the digest of the attached document, None when its bytes cannot be read
HashOf(f) == IF f.readable THEN Sha256Hex(f.bytes) ELSE PyNone

\* (a check that lets a missing image through)
ImageMissing_Never(f) == FALSE

\* if not image_file
ImageMissing(f) == ~f.present

\* no image: an error message, and nothing else happens
SubmitNoImage ==
    /\ pc = "idle"
    /\ authenticated
    /\ ImageMissing(image_file)
    /\ FreshLocals
    /\ outcome' = Shows("validation_error", PyNone)
    /\ UNCHANGED <<authenticated, session, uploads, pc, last_ok>>

\* image_file.read() raises: an error message, then st.stop()
SubmitUnreadableImage ==
    /\ pc = "idle"
    /\ authenticated
    /\ ~ImageMissing(image_file)
    /\ ~image_file.readable
    /\ FreshLocals
    /\ outcome' = Shows("image_unreadable", PyNone)
    /\ UNCHANGED <<authenticated, session, uploads, pc, last_ok>>

\* a readable image: the cache check, then the first outbound call is
\* issued, the extraction when it is needed and the QA request otherwise
SubmitRun ==
    /\ pc = "idle"
    /\ authenticated
    /\ ~ImageMissing(image_file)
    /\ image_file.readable
    /\ pdf_ctx' = pdf_extracted
    /\ before' = [extracted |-> pdf_extracted, hash |-> pdf_hash]
    /\ result_text' = PyNone
    /\ cleaned' = PyNone
    /\ outcome' = NothingShown
    /\ IF pdf_file.present
       THEN /\ new_hash' = HashOf(pdf_file)
            /\ IF NeedExtract(pdf_extracted, pdf_hash, HashOf(pdf_file))
               THEN pc' = "extracting" /\ calls' = <<"extract">>
               ELSE pc' = "auditing" /\ calls' = <<"audit">>
       ELSE /\ new_hash' = PyNone
            /\ pc' = "auditing"
            /\ calls' = <<"audit">>
    /\ UNCHANGED <<authenticated, session, uploads, last_ok>>

\* the cleaner and json.loads on a response; the text itself when it is no
\* JSON
ParsedOrRaw(text) ==
    LET r == JsonLoads(_clean_model_json(text))
    IN  IF r.ok THEN r.val ELSE PyStr(text)

\* (the stored digest left as it was)
StoredHash_Old == pdf_hash

\* st.session_state["pdf_hash"] = new_hash
StoredHash == new_hash

\* extract_from_pdf returns response.text.strip(): the result, its raw text
\* and the digest are stored, and the QA request is issued with the result
ExtractReturn(response) ==
    /\ pc = "extracting"
    /\ LET extracted_text == Strip(response)
       IN  /\ pdf_extract_raw' = PyStr(extracted_text)
           /\ pdf_extracted' = ParsedOrRaw(extracted_text)
           /\ pdf_ctx' = ParsedOrRaw(extracted_text)
           /\ last_ok' = [ok |-> TRUE, digest |-> new_hash,
                          value |-> ParsedOrRaw(extracted_text)]
    /\ pdf_hash' = StoredHash
    /\ calls' = calls \o <<"extract_ok", "audit">>
    /\ pc' = "auditing"
    /\ UNCHANGED <<authenticated, uploads, new_hash, result_text, cleaned, outcome,
                   before>>

\* the except branch of the extraction: what it leaves in
\* st.session_state["pdf_extracted"] and in pdf_ctx
ExtractedAfterFailure == PyNone

\* (pdf_ctx left as line 283 set it)
CtxAfterFailure_Stale == pdf_ctx

CtxAfterFailure == PyNone

\* (a failure that ends the submit)
ExtractFail_Abort ==
    /\ pc = "extracting"
    /\ pdf_extract_raw' = PyNone
    /\ pdf_extracted' = ExtractedAfterFailure
    /\ pdf_ctx' = CtxAfterFailure
    /\ last_ok' = [last_ok EXCEPT !.ok = FALSE]
    /\ calls' = calls \o <<"extract_fail">>
    /\ pc' = "idle"
    /\ outcome' = Shows("extraction_failed", PyNone)
    /\ UNCHANGED <<authenticated, pdf_hash, uploads, new_hash, result_text, cleaned,
                   before>>

\* extract_from_pdf raises: the cached result and its raw text are cleared,
\* pdf_hash is left as it was, and the QA request is issued without context
ExtractFail ==
    /\ pc = "extracting"
    /\ pdf_extract_raw' = PyNone
    /\ pdf_extracted' = ExtractedAfterFailure
    /\ pdf_ctx' = CtxAfterFailure
    /\ last_ok' = [last_ok EXCEPT !.ok = FALSE]
    /\ calls' = calls \o <<"extract_fail", "audit">>
    /\ pc' = "auditing"
    /\ UNCHANGED <<authenticated, pdf_hash, uploads, new_hash, result_text, cleaned,
                   outcome, before>>

\* call_gemini_api: the system instruction carries the extracted context
\* when pdf_extracted is true, as json.dumps of a dict or list and as str of
\* anything else
SystemInstruction(ctx) ==
    IF Truthy(ctx)
    THEN [context |-> TRUE, as_json |-> IsDictOrList(ctx), of |-> ctx]
    ELSE [context |-> FALSE, as_json |-> FALSE, of |-> PyNone]

\* (a card chosen by the Category field)
RenderView_ByCategory(v) ==
    IF v.t # "dict" THEN "AttributeError"
    ELSE IF KeyCategory \notin DOMAIN v.v THEN "success-card"
    ELSE "error-card"

\* the card of a parsed verdict: .get of anything but a dict raises
\* AttributeError, which nothing catches
RenderView(v) ==
    IF v.t # "dict" THEN "AttributeError"
    ELSE IF EqFalse(DictGet(v.v, KeyIssuePresent, PyBool(FALSE)))
    THEN "success-card"
    ELSE "error-card"

\* the text the warning card shows
ShownRaw(text) == PyStr(text)

\* the display of the QA result
Render(text) ==
    LET r == JsonLoads(_clean_model_json(text))
    IN  IF r.ok THEN Shows(RenderView(r.val), PyNone)
        ELSE Shows("warning-card", ShownRaw(text))

\* call_gemini_api returns response.text.strip(): nothing is shown for an
\* empty text (st.stop()), and the verdict is rendered otherwise
AuditReturn(response) ==
    /\ pc = "auditing"
    /\ result_text' = PyStr(Strip(response))
    /\ IF Strip(response) = <<>>
       THEN cleaned' = PyNone /\ outcome' = Shows("no_result", PyNone)
       ELSE /\ cleaned' = PyStr(_clean_model_json(Strip(response)))
            /\ outcome' = Render(Strip(response))
    /\ calls' = calls \o <<"audit_ok">>
    /\ pc' = "idle"
    /\ UNCHANGED <<authenticated, session, uploads, new_hash, pdf_ctx, last_ok,
                   before>>

\* call_gemini_api raises: an error message, result_text is None, st.stop()
AuditFail ==
    /\ pc = "auditing"
    /\ result_text' = PyNone
    /\ cleaned' = PyNone
    /\ outcome' = Shows("audit_failed", PyNone)
    /\ calls' = calls \o <<"audit_fail">>
    /\ pc' = "idle"
    /\ UNCHANGED <<authenticated, session, uploads, new_hash, pdf_ctx, last_ok,
                   before>>

Next ==
    \/ \E token_input \in Tokens : Login(token_input)
    \/ \E f \in PdfFiles : UploadPdf(f)
    \/ \E f \in ImageFiles : UploadImage(f)
    \/ SubmitNoImage
    \/ SubmitUnreadableImage
    \/ SubmitRun
    \/ \E response \in ExtractResponses : ExtractReturn(response)
    \/ ExtractFail
    \/ \E response \in AuditResponses : AuditReturn(response)
    \/ AuditFail

Spec == Init /\ [][Next]_vars

\* ------------------------------------------------------------------------
\* The cleaner alone, on every text of CleanTexts
\* ------------------------------------------------------------------------
InitClean ==
    /\ authenticated = TRUE
    /\ pdf_extracted = PyNone
    /\ pdf_extract_raw = PyNone
    /\ pdf_hash = PyNone
    /\ pdf_file = NoFile
    /\ image_file = GoodFile(1)
    /\ pc = "auditing"
    /\ new_hash = PyNone
    /\ pdf_ctx = PyNone
    /\ calls = <<"audit">>
    /\ result_text \in {PyStr(s) : s \in CleanTexts}
    /\ cleaned = PyNone
    /\ outcome = NothingShown
    /\ last_ok = NoHistory
    /\ before = NoBefore

Clean ==
    /\ pc = "auditing"
    /\ cleaned' = PyStr(_clean_model_json(result_text.v))
    /\ pc' = "idle"
    /\ UNCHANGED <<authenticated, session, uploads, new_hash, pdf_ctx, calls,
                   result_text, outcome, last_ok, before>>

NextClean == Clean

SpecClean == InitClean /\ [][NextClean]_vars

\* ------------------------------------------------------------------------
\* Properties
\* ------------------------------------------------------------------------
Count(log, x) == Cardinality({i \in DOMAIN log : log[i] = x})
Has(log, x) == Count(log, x) > 0
Stored(x) == x.t # "none"

\* a submit with a readable image has started and no upload has followed
\* it: new_hash, before and calls are those of that submit
Ran == calls # <<>>

\* C1: once an extraction has succeeded and no extraction was attempted
\* since, a submit that attaches a document with the digest of that
\* extraction issues no extraction call and gives the stored result,
\* whatever it is, to the QA request.
C1_UnchangedDocumentNeverExtractsAgain ==
    [][(/\ pc = "idle"
        /\ pc' # "idle"
        /\ pdf_file.present
        /\ Truthy(HashOf(pdf_file))
        /\ last_ok.ok
        /\ PyEq(last_ok.digest, HashOf(pdf_file)))
       => (/\ pc' = "auditing"
           /\ calls' = <<"audit">>
           /\ PyEq(pdf_ctx', last_ok.value))]_vars

\* C2: a submit with a readable image and a document whose digest is not
\* the stored one issues exactly one extraction call, before anything else;
\* when the call succeeds the stored digest is the new one, the cached
\* result is the result of the new response, and the QA request gets it.
C2_ChangedDocumentExtractsOnce ==
    (Ran /\ pdf_file.present /\ Truthy(new_hash) /\ ~PyEq(before.hash, new_hash))
    => /\ calls[1] = "extract"
       /\ Count(calls, "extract") = 1
       /\ Has(calls, "extract_ok")
          => /\ PyEq(pdf_hash, new_hash)
             /\ Stored(pdf_extract_raw)
             /\ PyEq(pdf_extracted, ParsedOrRaw(pdf_extract_raw.v))
             /\ Has(calls, "audit")
             /\ PyEq(pdf_ctx, pdf_extracted)

\* a changed document replaced a cached result: the QA request is out with
\* the new result, which is not the one the submit started from
C2_Witness ==
    /\ pc = "auditing"
    /\ calls = <<"extract", "extract_ok", "audit">>
    /\ Truthy(before.extracted)
    /\ Truthy(before.hash)
    /\ Truthy(new_hash)
    /\ ~PyEq(before.hash, new_hash)
    /\ Truthy(pdf_ctx)
    /\ ~PyEq(pdf_ctx, before.extracted)

\* C3: when the extraction call of a submit fails, nothing stays cached,
\* and the QA request of that submit is issued with no document context.
C3_FailedExtractionClearsCacheAndAudits ==
    Has(calls, "extract_fail")
    => /\ ~Stored(pdf_extracted)
       /\ Has(calls, "audit")
       /\ ~Stored(pdf_ctx)
       /\ ~SystemInstruction(pdf_ctx).context

\* the extraction of a changed document failed while a result was cached
C3_Witness ==
    /\ pc = "auditing"
    /\ calls = <<"extract", "extract_fail", "audit">>
    /\ Truthy(before.extracted)

\* C4: after a failed extraction, between submits, a digest is stored if
\* and only if a result is cached: the failure cleared both.
C4_DigestStoredIffSpecStored ==
    (pc = "idle" /\ Has(calls, "extract_fail"))
    => /\ Stored(pdf_hash) <=> Stored(pdf_extracted)
       /\ ~Stored(pdf_hash)

\* C5: a submit with no image ends with the validation message, leaves no
\* call issued or outstanding, and leaves the cached result, its raw text
\* and the stored digest as they were.
C5_NoImageNoCallsNoChange ==
    [][(/\ pc = "idle"
        /\ authenticated
        /\ ~image_file.present
        /\ uploads' = uploads)
       => (/\ outcome'.view = "validation_error"
           /\ calls' = <<>>
           /\ pc' = "idle"
           /\ session' = session)]_vars

\* the validation message is up while a document other than the cached one
\* is attached
C5_Witness ==
    /\ pc = "idle"
    /\ outcome.view = "validation_error"
    /\ ~image_file.present
    /\ pdf_file.readable
    /\ Truthy(pdf_extracted)
    /\ ~PyEq(pdf_hash, HashOf(pdf_file))

\* C6: whatever non-empty text the QA request returns, the submit ends with
\* one of the three cards.
C6_EveryResponseRendersACard ==
    (pc = "idle" /\ Has(calls, "audit_ok") /\ Truthy(result_text))
    => outcome.view \in {"success-card", "error-card", "warning-card"}

\* the text after the opening fence open, where text holds one
AfterOpening(text, open) == SetMin(Occ(text, open)) + Len(open)
\* the positions of the fences at or after position from
FencesFrom(text, from) == {j \in Occ(text, Fence) : j >= from}
OpeningOf(text) == IF Contains(text, FenceJson) THEN FenceJson ELSE Fence

\* the text from the opening fence to the first fence after it
FirstFencePair(text) ==
    LET from == AfterOpening(text, OpeningOf(text))
    IN  Strip(SubSeq(text, from, SetMin(FencesFrom(text, from)) - 1))

\* the text from the opening fence to the last fence after it, or to the
\* end when no fence follows
OuterFencePair(text) ==
    LET from == AfterOpening(text, OpeningOf(text))
        closing == FencesFrom(text, from)
    IN  Strip(SubSeq(text, from,
                     IF closing = {} THEN Len(text) ELSE SetMax(closing) - 1))

\* every fence of the text stands clear of the others: no run of four or
\* more backquotes
FencesApart(text) ==
    \A i, j \in Occ(text, Fence) : i < j => j - i > Len(Fence)

\* C7 as claimed: the cleaner returns the stripped content up to the first
\* closing fence after the opening fence (the first ```json if there is
\* one, else the first fence), and the stripped text when there is no fence.
\* Stated of the texts whose fences stand clear of each other and whose
\* opening fence has a closing one.
C7_FirstClosingFence ==
    pc = "idle"
    => LET text == result_text.v
       IN  IF ~Contains(text, Fence) THEN cleaned.v = Strip(text)
           ELSE (/\ FencesApart(text)
                 /\ FencesFrom(text, AfterOpening(text, OpeningOf(text))) # {})
                => cleaned.v = FirstFencePair(text)

\* C7 as the code has it: the cleaner returns the stripped content from the
\* opening fence (the first ```json if there is one, else the first fence)
\* to the last fence after it, or to the end of the text when no fence
\* follows, and the stripped text when there is no fence.
C7_LastClosingFence ==
    pc = "idle"
    => LET text == result_text.v
       IN  IF ~Contains(text, Fence) THEN cleaned.v = Strip(text)
           ELSE cleaned.v = OuterFencePair(text)

\* a text with a ```json opening and two fences after it, cleaned
C7_Witness ==
    /\ pc = "idle"
    /\ Contains(result_text.v, FenceJson)
    /\ FencesApart(result_text.v)
    /\ Cardinality(FencesFrom(result_text.v,
                              AfterOpening(result_text.v, FenceJson))) >= 2
    /\ cleaned.v # <<>>

\* the logs of outbound calls a submit can have
CallLogs ==
    LET extraction == {<<"extract", r>> : r \in {"extract_ok", "extract_fail"}}
        audit == {<<"audit", r>> : r \in {"audit_ok", "audit_fail"}}
    IN  audit \cup {e \o a : e \in extraction, a \in audit}

\* C8: a submit with a readable image issues exactly one QA request
\* whatever the extraction did, at most one extraction call, the QA request
\* only after the extraction has returned or failed, and repeats neither.
C8_OneAuditAfterExtraction ==
    /\ pc = "extracting" => calls = <<"extract">>
    /\ pc = "auditing" => \E log \in CallLogs : calls = SubSeq(log, 1, Len(log) - 1)
    /\ pc = "idle" => calls = <<>> \/ calls \in CallLogs
    /\ (image_file.readable /\ outcome.view \notin {"none"}) => Count(calls, "audit") = 1

\* both calls failed: one of each, in order, and no second try
C8_Witness ==
    /\ pc = "idle"
    /\ calls = <<"extract", "extract_fail", "audit", "audit_fail">>

\* a mapping without its fields other than Issue_Present
OnlyIssuePresent(v) ==
    PyDict([k \in (DOMAIN v.v) \cap {KeyIssuePresent} |-> v.v[k]])

\* C9: a response parsed as a mapping shows the no-issue card when its
\* Issue_Present is false and the issue card when it is true, and the same
\* card as the mapping without its other fields; a response that is no
\* JSON shows the warning card with the response text as it came.
C9_CardFollowsIssuePresent ==
    (pc = "idle" /\ Has(calls, "audit_ok") /\ Truthy(result_text))
    => LET r == JsonLoads(_clean_model_json(result_text.v))
           isMapping == r.ok /\ r.val.t = "dict"
           issue == DictGet(r.val.v, KeyIssuePresent, PyNone)
       IN  /\ (isMapping /\ PyEq(issue, PyBool(FALSE)))
              => outcome = Shows("success-card", PyNone)
           /\ (isMapping /\ PyEq(issue, PyBool(TRUE)))
              => outcome = Shows("error-card", PyNone)
           /\ isMapping => outcome.view = RenderView(OnlyIssuePresent(r.val))
           /\ ~r.ok => /\ outcome.view = "warning-card"
                       /\ PyEq(outcome.shown, result_text)

\* a fenced response that is no JSON is shown whole, fences included
C9_Witness ==
    /\ pc = "idle"
    /\ outcome.view = "warning-card"
    /\ Contains(result_text.v, Fence)
    /\ PyEq(outcome.shown, result_text)
    /\ ~PyEq(cleaned, result_text)

\* C10 as claimed: a submit that attaches a document and skips the
\* extraction gives the QA request the result of the most recent successful
\* extraction, which was of a document with the digest of the attached one
\* (a document whose bytes cannot be read has none); and a submit that
\* starts with nothing cached extracts, whatever digest is stored.
C10_EveryReuseIsOfTheAttachedDocument ==
    /\ (Ran /\ pdf_file.present /\ calls[1] = "audit")
       => /\ PyEq(last_ok.digest, new_hash)
          /\ PyEq(pdf_ctx, last_ok.value)
          /\ Truthy(pdf_ctx)
    /\ (Ran /\ pdf_file.present /\ ~Stored(before.extracted))
       => calls[1] = "extract"

\* C10 as the code has it: a submit that attaches a document, computes its
\* digest and skips the extraction gives the QA request the result of the
\* most recent successful extraction, which was of a document with that
\* digest; a submit that starts with nothing cached extracts, whatever
\* digest is stored; and a submit whose document cannot be read for its
\* digest skips the extraction and reuses whatever true result is cached.
C10_ReusedSpecIsOfTheAttachedDocument ==
    /\ (Ran /\ pdf_file.present /\ Truthy(new_hash) /\ calls[1] = "audit")
       => /\ PyEq(last_ok.digest, new_hash)
          /\ PyEq(pdf_ctx, last_ok.value)
          /\ Truthy(pdf_ctx)
    /\ (Ran /\ pdf_file.present /\ ~Stored(before.extracted))
       => calls[1] = "extract"
    /\ (Ran /\ pdf_file.present /\ ~Truthy(new_hash) /\ Truthy(before.extracted))
       => /\ calls[1] = "audit"
          /\ PyEq(pdf_ctx, before.extracted)
          /\ PyEq(pdf_ctx, last_ok.value)

\* the digest left by an earlier document's extraction is that of the
\* attached document, nothing is cached, and the extraction is issued
C10_Witness ==
    /\ pc = "extracting"
    /\ ~Stored(before.extracted)
    /\ Truthy(new_hash)
    /\ PyEq(before.hash, new_hash)
    /\ last_ok.ok = FALSE
    /\ PyEq(last_ok.digest, new_hash)
====
